---- MODULE Spec2Model ----
(***************************************************************************)
(* goquirc: the Go wrapper around the quirc QR decoder (src/goquirc.go).   *)
(*                                                                         *)
(* The model follows Processing.Reveal statement by statement.  Each call  *)
(* of Reveal is a "scan" with its own frame (parameters, locals, program   *)
(* counter); the Processing values and the engine's heap of contexts are   *)
(* shared state.  A step of the model is one engine call of Reveal with the*)
(* Go statements around it, so that calls of different goroutines can      *)
(* interleave exactly where the scheduler can interleave them.             *)
(*                                                                         *)
(* The quirc engine itself (C code behind cgo) is not part of src/; its    *)
(* operations are modelled from the engine interface of the specification  *)
(* (Engine* operators below).                                              *)
(***************************************************************************)
EXTENDS Integers, Sequences, FiniteSets, TLC

\* ------------------------------------------------------------------ bounds
\* Total number of Reveal calls made by the callers.
MaxCalls == 2
\* Image width and height passed to Reveal range over 1..MaxDim.
MaxDim == 2
\* The caller's pixel buffer holds 0..MaxLen bytes.
MaxLen == 4
\* The engine locates 0..MaxCand candidates in one image.
MaxCand == 2
\* Number of Version calls made by the callers.
MaxVersionCalls == 2

\* Goroutines that call Reveal, and the Processing values they call it on.
Scans == {"g1", "g2"}
Procs == {"p1", "p2"}

\* Handles of engine contexts: one allocation per successful quirc_new.
\* NULL is the nil handle.
NULL == 0
Handles == 1..MaxCalls

Dims == 1..MaxDim
\* Cell bitmaps of the symbols an image may show: one with a corrupted format
\* pattern (0), one encoding text (1), one encoding bytes (2).
Cells == {0, 1, 2}

\* The caller's image of n bytes: a ramp, so that every position holds a
\* different byte and none of them is a byte of a fresh scan buffer.
Pixel(k) == 10 + k
Image(n) == [k \in 1..n |-> Pixel(k)]
Images == {Image(n) : n \in 0..MaxLen}

\* Content of memory the engine allocated and nobody wrote: zero (calloc) or
\* whatever the allocator left there.
Uninit == {0, 170}

Min(a, b) == IF a < b THEN a ELSE b

\* ------------------------------------------------------------- Go types
Position(px, py) == [X |-> px, Y |-> py]

ZeroResult == [Found |-> 0, Usable |-> 0, Code |-> <<>>]

\* error values (nil, or the message of errors.New)
NoErr == "nil"
ErrCreate == "Failed to allocate memory"
ErrResize == "Failed to allocate video memory"

\* C.GoString: the bytes of a C buffer before its first NUL.
RECURSIVE GoString(_)
GoString(cbuf) ==
    IF cbuf = <<>> \/ Head(cbuf) = 0 THEN <<>>
    ELSE <<Head(cbuf)>> \o GoString(Tail(cbuf))

\* ----------------------------------------------------- the quirc engine
\* struct quirc_code and struct quirc_data, zero valued as in a fresh
\* Processing.
ZeroPoint == [x |-> 0, y |-> 0]
ZeroCode == [corners |-> <<ZeroPoint, ZeroPoint, ZeroPoint, ZeroPoint>>,
             size |-> 0, cells |-> 0]
ZeroData == [version |-> 0, ecc_level |-> 0, mask |-> 0, data_type |-> 0,
             payload |-> <<0>>, payload_len |-> 0]

\* A context: never allocated, live, or freed.
NoCtx == [st |-> "none", w |-> 0, h |-> 0, buf |-> <<>>, scanned |-> FALSE,
          cands |-> <<>>]
FreshCtx == [NoCtx EXCEPT !.st = "live"]
FreedCtx == [NoCtx EXCEPT !.st = "freed"]

\* What detection can find in an image: the cell bitmaps of the candidates,
\* in extraction order.
RECURSIVE SeqsUpTo(_, _)
SeqsUpTo(S, n) ==
    IF n = 0 THEN {<<>>}
    ELSE LET shorter == SeqsUpTo(S, n - 1)
         IN  shorter \cup {Append(q, e) : q \in {r \in shorter : Len(r) = n - 1}, e \in S}
Scenes == SeqsUpTo(Cells, MaxCand)

\* Grid size of a symbol with the given cells: version 1 (21) or more.
GridSize(c) == 17 + 4 * (IF c = 0 THEN 1 ELSE c)

\* engine.extract: candidate number index (0 based) of a scanned context.
\* Two symbols of one image lie in different places.
EngineExtract(cx, index) ==
    LET c == cx.cands[index + 1]
        o == 30 * index
        s == GridSize(c)
    IN  [corners |-> <<[x |-> o, y |-> 0], [x |-> o + s, y |-> 0],
                       [x |-> o + s, y |-> s], [x |-> o, y |-> s]>>,
         size |-> s, cells |-> c]

\* The payload a readable cell bitmap encodes: text, or bytes with a NUL in
\* them (byte mode).
PayloadOf(c) ==
    IF c % 2 = 1 THEN <<72, 64 + c>> ELSE <<64 + c, 0, 75>>

\* engine.decode: quirc_decode(&code, &data).  Returns the error message
\* (NoErr on success) and the data it leaves in *data.
EngineDecode(cd, old) ==
    IF (cd.size - 17) % 4 # 0 \/ cd.size < 21
      THEN [err |-> "Invalid grid size", data |-> old]
    ELSE IF cd.cells = 0
      THEN [err |-> "Format data ECC failure",
            data |-> [ZeroData EXCEPT !.version = (cd.size - 17) \div 4]]
    ELSE [err |-> NoErr,
          data |-> [version |-> (cd.size - 17) \div 4,
                    ecc_level |-> cd.cells % 4,
                    mask |-> (cd.cells + 3) % 8,
                    data_type |-> IF cd.cells % 2 = 1 THEN 2 ELSE 4,
                    payload |-> PayloadOf(cd.cells) \o <<0>>,
                    payload_len |-> Len(PayloadOf(cd.cells))]]

\* engine.version: the C string quirc_version() returns ("1.0").
EngineVersion == <<49, 46, 48, 0>>

\* ------------------------------------------------------------------ state
VARIABLES
    pc,        \* scan -> where the call of Reveal stands
    qr,        \* scan -> the Processing value Reveal was called on
    image,     \* scan -> the caller's pixel buffer
    w, h,      \* scan -> the dimensions passed to Reveal
    result,    \* scan -> Reveal's local result
    err,       \* scan -> Reveal's local err
    i,         \* scan -> the loop index
    deferred,  \* scan -> qr.Destroy() has been deferred
    ret,       \* scan -> what the call handed back to its caller
    qrStruct,  \* Processing -> handle of its context
    code,      \* Processing -> the candidate last extracted
    data,      \* Processing -> the data last decoded
    heap,      \* handle -> the engine's context
    allocated, \* number of contexts quirc_new has allocated
    calls,     \* number of Reveal calls made
    ops,       \* scan -> engine operations of the current call, in order
    own,       \* scan -> handle the current call created (NULL if none)
    detected,  \* scan -> what the End of the current call detected
    destroyed, \* handle -> number of quirc_destroy calls made on it
    versionCalls, \* number of Version calls made
    versionOut \* the string the last Version call returned

vars == <<pc, qr, image, w, h, result, err, i, deferred, ret, qrStruct, code,
          data, heap, allocated, calls, ops, own, detected, destroyed,
          versionCalls, versionOut>>

frameVars == <<qr, image, w, h>>
procVars == <<qrStruct, code, data>>
versionVars == <<versionCalls, versionOut>>

NoRet == [kind |-> "none", result |-> ZeroResult, err |-> NoErr]

Init ==
    /\ pc = [s \in Scans |-> "idle"]
    /\ qr = [s \in Scans |-> "p1"]
    /\ image = [s \in Scans |-> <<>>]
    /\ w = [s \in Scans |-> 0]
    /\ h = [s \in Scans |-> 0]
    /\ result = [s \in Scans |-> ZeroResult]
    /\ err = [s \in Scans |-> NoErr]
    /\ i = [s \in Scans |-> 0]
    /\ deferred = [s \in Scans |-> FALSE]
    /\ ret = [s \in Scans |-> NoRet]
    /\ qrStruct = [p \in Procs |-> NULL]
    /\ code = [p \in Procs |-> ZeroCode]
    /\ data = [p \in Procs |-> ZeroData]
    /\ heap = [hd \in Handles |-> NoCtx]
    /\ allocated = 0
    /\ calls = 0
    /\ ops = [s \in Scans |-> <<>>]
    /\ own = [s \in Scans |-> NULL]
    /\ detected = [s \in Scans |-> <<>>]
    /\ destroyed = [hd \in Handles |-> 0]
    /\ versionCalls = 0
    /\ versionOut = <<>>


\* ------------------------------------------------- pieces of Reveal's code
\* Mutant: code, data and qrStruct kept in one place for every Processing
\* value (package level variables instead of fields).
ReceiverShared(p) == "p1"

\* The receiver: the fields qrStruct, code and data belong to the Processing
\* value Reveal is called on.
Receiver(p) == p

Handle(s) == qrStruct[Receiver(qr[s])]
Live(hd) == hd \in Handles /\ heap[hd].st = "live"

\* Mutant: a handle the Processing value already holds is kept.
FieldAfterCreateKept(old, hd) == IF old = NULL THEN hd ELSE old

\* qr.qrStruct = C.quirc_new(): the field takes what quirc_new returned,
\* whatever it held before.
FieldAfterCreate(old, hd) == hd

\* Mutant: the Destroy deferred before Create's error is looked at.
DeferAlways(ok) == TRUE

\* defer qr.Destroy() is registered once Create has succeeded.
DeferAfterCreate(ok) == ok

\* Mutant: no deferred Destroy runs when Reveal is left.
ReturnPcNoDefer(dfr) == "done"

\* A return statement (or a panic) runs the deferred Destroy, if one is
\* registered, before the call ends.
ReturnPc(dfr) == IF dfr THEN "destroy" ELSE "done"

\* return result, err  (the setup failures)
ReturnErr(res, e) == [kind |-> "err", result |-> res, err |-> e]

\* Mutant: return result, err  (the err variable, as the early returns do).
ReturnValueErrVar(res, e) ==
    [kind |-> IF e = NoErr THEN "ok" ELSE "err", result |-> res, err |-> e]

\* return result, nil  (after the loop)
ReturnValue(res, e) == [kind |-> "ok", result |-> res, err |-> NoErr]

\* A runtime panic leaves Reveal without a return value.
Panicked == [kind |-> "panic", result |-> ZeroResult, err |-> "index out of range"]
\* A fault in the engine (nil or freed context) ends the process.
Faulted == [kind |-> "fault", result |-> ZeroResult, err |-> "SIGSEGV"]

\* Mutant: Resize's error ignored.
AfterResizeIgnoreErr(ok) == "load"

\* After Resize: on to Load, or the early return.
AfterResize(ok) == IF ok THEN "load" ELSE "return"

\* Mutant: End left out.
AfterLoadSkipEnd == "count"

\* After a Load that did not panic: qr.End().
AfterLoad == "end"

\* Mutant: Usable starts at zero.
InitialUsableZero(found) == 0

\* result.Usable = result.Found
InitialUsable(found) == found

\* Mutant: i <= result.Found.
LoopPcInclusive(idx, found) == IF idx <= found THEN "extract" ELSE "return"

\* for i := 0; i < result.Found; i++
LoopPc(idx, found) == IF idx < found THEN "extract" ELSE "return"

\* The QRcode literal Reveal appends.
QRcodeOf(cd, dt) ==
    [Corners |-> [k \in 1..4 |-> Position(cd.corners[k].x, cd.corners[k].y)],
     DataType |-> dt.data_type,
     ECCLevel |-> dt.ecc_level,
     Mask |-> dt.mask,
     Payload |-> GoString(dt.payload),
     PayloadLength |-> Len(GoString(dt.payload)),
     Size |-> cd.size,
     Version |-> dt.version]

\* Mutant: the entries are views of the one shared qr.code / qr.data, so an
\* append makes every entry show the candidate just decoded.
OnDecodeSuccessOverwrite(res, cd, dt) ==
    [res EXCEPT !.Code = [k \in 1..(Len(@) + 1) |-> QRcodeOf(cd, dt)]]

\* Mutant: the new entry put in front of the others.
OnDecodeSuccessPrepend(res, cd, dt) ==
    [res EXCEPT !.Code = <<QRcodeOf(cd, dt)>> \o @]

\* err == nil: result.Code = append(result.Code, QRcode{...})
OnDecodeSuccess(res, cd, dt) == [res EXCEPT !.Code = Append(@, QRcodeOf(cd, dt))]

\* Mutant: Usable not decremented.
OnDecodeFailureKeep(res) == res

\* else: result.Usable--
OnDecodeFailure(res) == [res EXCEPT !.Usable = @ - 1]

\* Load's copy loop: imageSize = w*h - 1; for i = 0; i < imageSize; i++.
\* The number of bytes the loop sets out to copy (a C.int; the dimensions of
\* the model are far from its 32 bit range).
CopyLength(cw, ch) == cw * ch - 1

\* The scan buffer after the loop ran over src: the loop stops (with a
\* panic, index out of range) at the first index src does not have.
Copied(buf, src, cw, ch) ==
    LET n == Min(CopyLength(cw, ch), Len(src))
    IN  [k \in 1..Len(buf) |-> IF k <= n THEN src[k] ELSE buf[k]]

LoadPanics(src, cw, ch) == CopyLength(cw, ch) > Len(src)

\* Mutant: Destroy releases the handle the call created.
DestroyTargetOwn(s) == own[s]

\* Destroy releases what qr.qrStruct holds when the deferred call runs.
DestroyTarget(s) == Handle(s)

\* Mutant: Version resets the receiver.
VersionLeavesReset(p) == [qrStruct |-> NULL, code |-> ZeroCode, data |-> ZeroData]

\* Version does not touch its receiver.
VersionLeaves(p) == [qrStruct |-> qrStruct[p], code |-> code[p], data |-> data[p]]

\* ------------------------------------------------------------- actions
\* An entry of ops: the operation, the handle it was applied to, and its
\* argument (Extract, Decode: the index) or outcome (Create, Resize: 0 or -1,
\* Count: the count).
Op(name, hd, arg) == <<name, hd, arg>>

\* The scan leaves Reveal with value r: the deferred Destroy runs first.
Leave(s, r) ==
    /\ ret' = [ret EXCEPT ![s] = r]
    /\ pc' = [pc EXCEPT ![s] = ReturnPc(deferred[s])]

\* An engine call on a context that is not live.  On nil the engine
\* dereferences a null pointer and the process faults.  On a freed context
\* the behaviour is undefined: the process faults, or the call reads the
\* released memory (here: zeroes, so Resize reports success, Count reports 0
\* and Extract leaves *code alone) and Reveal goes on to nxt.
Fault(s, name, nxt) ==
    \E crash \in BOOLEAN :
        /\ ops' = [ops EXCEPT ![s] = Append(@, Op(name, Handle(s), 0))]
        /\ IF crash \/ Handle(s) = NULL
             THEN /\ ret' = [ret EXCEPT ![s] = Faulted]
                  /\ pc' = [pc EXCEPT ![s] = "done"]
             ELSE IF nxt = "return"
                    THEN Leave(s, ReturnValue(result[s], err[s]))
                    ELSE /\ pc' = [pc EXCEPT ![s] = nxt]
                         /\ ret' = ret
        /\ UNCHANGED <<versionVars, frameVars, procVars, result, err, i, deferred,
                       heap, allocated, calls, own, detected, destroyed>>

\* A goroutine calls qr.Reveal(&img, cw, ch) on Processing p.
Call(s, p, img, cw, ch) ==
    /\ pc[s] \in {"idle", "done"}
    /\ calls < MaxCalls
    /\ calls' = calls + 1
    /\ pc' = [pc EXCEPT ![s] = "create"]
    /\ qr' = [qr EXCEPT ![s] = p]
    /\ image' = [image EXCEPT ![s] = img]
    /\ w' = [w EXCEPT ![s] = cw]
    /\ h' = [h EXCEPT ![s] = ch]
    /\ result' = [result EXCEPT ![s] = ZeroResult]
    /\ err' = [err EXCEPT ![s] = NoErr]
    /\ i' = [i EXCEPT ![s] = 0]
    /\ deferred' = [deferred EXCEPT ![s] = FALSE]
    /\ ret' = [ret EXCEPT ![s] = NoRet]
    /\ ops' = [ops EXCEPT ![s] = <<>>]
    /\ own' = [own EXCEPT ![s] = NULL]
    /\ detected' = [detected EXCEPT ![s] = <<>>]
    /\ UNCHANGED <<versionVars, procVars, heap, allocated, destroyed>>

\* if err = qr.Create(); err != nil { return result, err }; defer qr.Destroy()
Create(s) ==
    /\ pc[s] = "create"
    /\ \E ok \in BOOLEAN :
         LET hd == IF ok THEN allocated + 1 ELSE NULL
             e  == IF ok THEN NoErr ELSE ErrCreate
         IN  /\ qrStruct' = [qrStruct EXCEPT ![Receiver(qr[s])] = FieldAfterCreate(@, hd)]
             /\ heap' = IF ok THEN [heap EXCEPT ![hd] = FreshCtx] ELSE heap
             /\ allocated' = IF ok THEN allocated + 1 ELSE allocated
             /\ own' = [own EXCEPT ![s] = hd]
             /\ err' = [err EXCEPT ![s] = e]
             /\ ops' = [ops EXCEPT ![s] = Append(@, Op("Create", hd, IF ok THEN 0 ELSE -1))]
             /\ deferred' = [deferred EXCEPT ![s] = DeferAfterCreate(ok)]
             /\ IF ok
                  THEN /\ pc' = [pc EXCEPT ![s] = "resize"]
                       /\ ret' = ret
                  ELSE /\ ret' = [ret EXCEPT ![s] = ReturnErr(result[s], e)]
                       /\ pc' = [pc EXCEPT ![s] = ReturnPc(deferred'[s])]
    /\ UNCHANGED <<versionVars, frameVars, code, data, result, i, calls, detected, destroyed>>

\* if err = qr.Resize(w, h); err != nil { return result, err }
Resize(s) ==
    /\ pc[s] = "resize"
    /\ IF Live(Handle(s))
         THEN \E ok \in BOOLEAN, fill \in Uninit :
                LET hd == Handle(s)
                    e  == IF ok THEN NoErr ELSE ErrResize
                    cw == w[s]
                    ch == h[s]
                IN  /\ heap' = IF ok
                        THEN [heap EXCEPT ![hd] =
                                [@ EXCEPT !.w = cw, !.h = ch,
                                          !.buf = [k \in 1..(cw * ch) |-> fill]]]
                        ELSE heap
                    /\ err' = [err EXCEPT ![s] = e]
                    /\ ops' = [ops EXCEPT ![s] = Append(@, Op("Resize", hd, IF ok THEN 0 ELSE -1))]
                    /\ IF AfterResize(ok) = "load"
                         THEN /\ pc' = [pc EXCEPT ![s] = "load"]
                              /\ ret' = ret
                         ELSE Leave(s, ReturnErr(result[s], e))
                    /\ UNCHANGED <<versionVars, frameVars, procVars, result, i, deferred,
                                   allocated, calls, own, detected, destroyed>>
         ELSE Fault(s, "Resize", "load")

\* qr.Load(image)
Load(s) ==
    /\ pc[s] = "load"
    /\ IF Live(Handle(s))
         THEN LET hd == Handle(s)
                  cx == heap[hd]
              IN  /\ heap' = [heap EXCEPT ![hd].buf = Copied(cx.buf, image[s], cx.w, cx.h)]
                  /\ ops' = [ops EXCEPT ![s] = Append(@, Op("Load", hd, 0))]
                  /\ IF LoadPanics(image[s], cx.w, cx.h)
                       THEN Leave(s, Panicked)
                       ELSE /\ pc' = [pc EXCEPT ![s] = AfterLoad]
                            /\ ret' = ret
                  /\ UNCHANGED <<versionVars, frameVars, procVars, result, err, i, deferred,
                                 allocated, calls, own, detected, destroyed>>
         ELSE Fault(s, "Load", "end")

\* qr.End(): the engine analyses the scan buffer and finds the candidates.
End(s) ==
    /\ pc[s] = "end"
    /\ IF Live(Handle(s))
         THEN \E scene \in Scenes :
                LET hd == Handle(s)
                IN  /\ heap' = [heap EXCEPT ![hd] =
                                  [@ EXCEPT !.scanned = TRUE, !.cands = scene]]
                    /\ detected' = [detected EXCEPT ![s] = scene]
                    /\ ops' = [ops EXCEPT ![s] = Append(@, Op("End", hd, 0))]
                    /\ pc' = [pc EXCEPT ![s] = "count"]
                    /\ UNCHANGED <<versionVars, frameVars, procVars, result, err, i, deferred,
                                   ret, allocated, calls, own, destroyed>>
         ELSE Fault(s, "End", "count")

\* result.Found = qr.Count(); result.Usable = result.Found; i := 0
Count(s) ==
    /\ pc[s] = "count"
    /\ IF Live(Handle(s))
         THEN LET hd == Handle(s)
                  n == Len(heap[hd].cands)
                  res == [result[s] EXCEPT !.Found = n, !.Usable = InitialUsable(n)]
              IN  /\ result' = [result EXCEPT ![s] = res]
                  /\ i' = [i EXCEPT ![s] = 0]
                  /\ ops' = [ops EXCEPT ![s] = Append(@, Op("Count", hd, n))]
                  /\ IF LoopPc(0, res.Found) = "extract"
                       THEN /\ pc' = [pc EXCEPT ![s] = "extract"]
                            /\ ret' = ret
                       ELSE Leave(s, ReturnValue(res, err[s]))
                  /\ UNCHANGED <<versionVars, frameVars, procVars, err, deferred, heap,
                                 allocated, calls, own, detected, destroyed>>
         ELSE Fault(s, "Count", "return")

\* qr.Extract(i): quirc_extract leaves *code alone when the index is out of
\* range.
Extract(s) ==
    /\ pc[s] = "extract"
    /\ IF Live(Handle(s))
         THEN LET hd == Handle(s)
                  cx == heap[hd]
              IN  /\ code' = IF i[s] >= 0 /\ i[s] < Len(cx.cands)
                               THEN [code EXCEPT ![Receiver(qr[s])] = EngineExtract(cx, i[s])]
                               ELSE code
                  /\ ops' = [ops EXCEPT ![s] = Append(@, Op("Extract", hd, i[s]))]
                  /\ pc' = [pc EXCEPT ![s] = "decode"]
                  /\ UNCHANGED <<versionVars, frameVars, qrStruct, data, result, err, i, deferred,
                                 ret, heap, allocated, calls, own, detected, destroyed>>
         ELSE Fault(s, "Extract", "decode")

\* if err = qr.Decode(); err == nil {...} else { result.Usable-- }; i++
\* Decode works on qr.code and qr.data, not on the context.
Decode(s) ==
    /\ pc[s] = "decode"
    /\ LET p == Receiver(qr[s])
           r == EngineDecode(code[p], data[p])
           res == OnDecodeFailure(result[s])
       IN  /\ data' = [data EXCEPT ![p] = r.data]
           /\ err' = [err EXCEPT ![s] = r.err]
           /\ ops' = [ops EXCEPT ![s] = Append(@, Op("Decode", Handle(s), i[s]))]
           /\ IF r.err = NoErr
                THEN /\ pc' = [pc EXCEPT ![s] = "append"]
                     /\ UNCHANGED <<result, i, ret>>
                ELSE /\ result' = [result EXCEPT ![s] = res]
                     /\ i' = [i EXCEPT ![s] = @ + 1]
                     /\ IF LoopPc(i[s] + 1, res.Found) = "extract"
                          THEN /\ pc' = [pc EXCEPT ![s] = "extract"]
                               /\ ret' = ret
                          ELSE Leave(s, ReturnValue(res, r.err))
    /\ UNCHANGED <<versionVars, frameVars, qrStruct, code, deferred, heap, allocated, calls,
                   own, detected, destroyed>>

\* result.Code = append(result.Code, QRcode{...}) reads qr.code and qr.data.
AppendCode(s) ==
    /\ pc[s] = "append"
    /\ LET p == Receiver(qr[s])
           res == OnDecodeSuccess(result[s], code[p], data[p])
       IN  /\ result' = [result EXCEPT ![s] = res]
           /\ i' = [i EXCEPT ![s] = @ + 1]
           /\ IF LoopPc(i[s] + 1, res.Found) = "extract"
                THEN /\ pc' = [pc EXCEPT ![s] = "extract"]
                     /\ ret' = ret
                ELSE Leave(s, ReturnValue(res, err[s]))
    /\ UNCHANGED <<versionVars, frameVars, procVars, err, deferred, heap, allocated, calls,
                   ops, own, detected, destroyed>>

\* The deferred qr.Destroy(): quirc_destroy(qr.qrStruct), then Reveal is over.
\* Destroying a context a second time is undefined: the allocator aborts the
\* process or lets it pass.  Destroying nil faults.
Destroy(s) ==
    /\ pc[s] = "destroy"
    /\ IF Live(DestroyTarget(s))
         THEN LET hd == DestroyTarget(s)
              IN  /\ heap' = [heap EXCEPT ![hd] = FreedCtx]
                  /\ destroyed' = [destroyed EXCEPT ![hd] = @ + 1]
                  /\ ops' = [ops EXCEPT ![s] = Append(@, Op("Destroy", hd, 0))]
                  /\ pc' = [pc EXCEPT ![s] = "done"]
                  /\ UNCHANGED <<versionVars, frameVars, procVars, result, err, i,
                                 deferred, ret, allocated, calls, own, detected>>
         ELSE \E abort \in BOOLEAN :
              /\ destroyed' = IF DestroyTarget(s) \in Handles
                                THEN [destroyed EXCEPT ![DestroyTarget(s)] = @ + 1]
                                ELSE destroyed
              /\ ret' = IF abort \/ DestroyTarget(s) = NULL
                          THEN [ret EXCEPT ![s] = Faulted] ELSE ret
              /\ pc' = [pc EXCEPT ![s] = "done"]
              /\ ops' = [ops EXCEPT ![s] = Append(@, Op("Destroy", DestroyTarget(s), 0))]
              /\ UNCHANGED <<versionVars, frameVars, procVars, result, err, i,
                             deferred, heap, allocated, calls, own, detected>>

\* qr.Version(): return C.GoString(C.quirc_version())
Version(p) ==
    /\ versionCalls < MaxVersionCalls
    /\ versionCalls' = versionCalls + 1
    /\ versionOut' = GoString(EngineVersion)
    /\ qrStruct' = [qrStruct EXCEPT ![p] = VersionLeaves(p).qrStruct]
    /\ code' = [code EXCEPT ![p] = VersionLeaves(p).code]
    /\ data' = [data EXCEPT ![p] = VersionLeaves(p).data]
    /\ UNCHANGED <<pc, frameVars, result, err, i, deferred, ret, heap, allocated,
                   calls, ops, own, detected, destroyed>>

Step(s) ==
    \/ Create(s)
    \/ Resize(s)
    \/ Load(s)
    \/ End(s)
    \/ Count(s)
    \/ Extract(s)
    \/ Decode(s)
    \/ AppendCode(s)
    \/ Destroy(s)

Running(s) == pc[s] \notin {"idle", "done"}

\* Sequential use: one goroutine calls Reveal on one Processing value again
\* and again, each call after the one before has ended.
CallAlone(s) ==
    /\ s = "g1"
    /\ \E img \in Images, cw \in Dims, ch \in Dims :
         Call(s, "p1", img, cw, ch)

Next == \E s \in Scans : CallAlone(s) \/ Step(s)

Spec == Init /\ [][Next]_vars

\* Concurrent use: two goroutines, each calling Reveal once on a Processing
\* value of its own, their steps interleaved in every way.  The images are
\* two bytes wide and one high, the buffers full or empty.
OwnProc(s) == IF s = "g1" THEN "p1" ELSE "p2"

CallOwn(s) ==
    /\ pc[s] = "idle"
    /\ \E img \in {Image(0), Image(2)} :
         Call(s, OwnProc(s), img, 2, 1)

NextConc == \E s \in Scans : CallOwn(s) \/ Step(s)

SpecConc == Init /\ [][NextConc]_vars

\* Sequential use with small images (two bytes wide and one high, the buffer
\* full or empty).
CallSmall(s) ==
    /\ s = "g1"
    /\ \E img \in {Image(0), Image(2)} :
         Call(s, "p1", img, 2, 1)

NextSmall == \E s \in Scans : CallSmall(s) \/ Step(s)

\* Sequential scans, and Version called on any Processing value at any
\* moment, between any two steps of a scan.
NextVersion == NextSmall \/ \E p \in Procs : Version(p)

SpecVersion == Init /\ [][NextVersion]_vars

\* Reveal is synchronous code: a call that can take its next step takes it.
SpecLive == Init /\ [][NextSmall]_vars /\ WF_vars(\E s \in Scans : Step(s))

\* Misuse: two goroutines, each calling Reveal once, on the same Processing
\* value, their steps interleaved in every way.
CallShared(s) ==
    /\ pc[s] = "idle"
    /\ IF s = "g1" THEN Call(s, "p1", Image(1), 1, 1)
                   ELSE Call(s, "p1", Image(0), 1, 1)

NextShared == \E s \in Scans : CallShared(s) \/ Step(s)

SpecShared == Init /\ [][NextShared]_vars

\* ------------------------------------------------------------ properties
Done(s) == pc[s] = "done"

\* The operations of the current call, by name.
OpNames(s) == [k \in 1..Len(ops[s]) |-> ops[s][k][1]]
HasOp(s, name) == \E k \in 1..Len(ops[s]) : ops[s][k][1] = name
OpCount(s, name) == Cardinality({k \in 1..Len(ops[s]) : ops[s][k][1] = name})

CreateFailed(s) == Len(ops[s]) >= 1 /\ ops[s][1] = Op("Create", NULL, -1)
CreateSucceeded(s) == Len(ops[s]) >= 1 /\ ops[s][1][1] = "Create" /\ ops[s][1][3] = 0
ResizeFailed(s) == Len(ops[s]) >= 2 /\ ops[s][2][1] = "Resize" /\ ops[s][2][3] = -1
ResizeSucceeded(s) == Len(ops[s]) >= 2 /\ ops[s][2][1] = "Resize" /\ ops[s][2][3] = 0

BufferShort(s) == Len(image[s]) < w[s] * h[s]

\* The candidate with index idx of a scene, and what decoding it gives.
CandidateOf(scene, idx) == EngineExtract([cands |-> scene], idx)
DecodeOf(scene, idx) == EngineDecode(CandidateOf(scene, idx), ZeroData)
Succeeds(scene, idx) == DecodeOf(scene, idx).err = NoErr

\* The entries of the candidates of a scene that decode, in index order.
RECURSIVE Successes(_, _)
Successes(scene, n) ==
    IF n = 0 THEN <<>>
    ELSE LET before == Successes(scene, n - 1)
         IN  IF Succeeds(scene, n - 1)
               THEN Append(before, QRcodeOf(CandidateOf(scene, n - 1),
                                            DecodeOf(scene, n - 1).data))
               ELSE before

Failures(scene) == Cardinality({k \in 1..Len(scene) : ~Succeeds(scene, k - 1)})

\* C1: once Create has succeeded, the context of the call has been destroyed
\* exactly once when Reveal is over (return, early return or panic), and no
\* context is ever destroyed twice.
C1_DestroyedExactlyOnce ==
    /\ \A s \in Scans :
         Done(s) /\ own[s] # NULL =>
            /\ destroyed[own[s]] = 1
            /\ heap[own[s]].st = "freed"
            /\ OpCount(s, "Destroy") = 1
    /\ \A hd \in Handles : destroyed[hd] <= 1

\* C1 witness: a call that panicked in Load is over, its context destroyed.
C1_Witness ==
    \E s \in Scans :
        /\ Done(s) /\ ret[s].kind = "panic" /\ own[s] # NULL
        /\ destroyed[own[s]] = 1

\* C2: a Reveal that returns without error returns 0 <= Usable <= Found and
\* len(Code) = Usable.
C2_UsableBounds ==
    \A s \in Scans :
        Done(s) /\ ret[s].kind = "ok" =>
            /\ 0 <= ret[s].result.Usable
            /\ ret[s].result.Usable <= ret[s].result.Found
            /\ Len(ret[s].result.Code) = ret[s].result.Usable

\* C2 witness: a returned scan of two candidates, one of which failed.
C2_Witness ==
    \E s \in Scans :
        /\ Done(s) /\ ret[s].kind = "ok"
        /\ ret[s].result.Found = 2 /\ ret[s].result.Usable = 1
        /\ Len(ret[s].result.Code) = 1

\* C3 (as claimed): when the buffer holds fewer than w*h bytes, a Reveal that
\* got as far as Load returns an invalid-buffer-size error and no Result, no
\* byte has been copied, and End, Count, Extract and Decode were not called.
C3_ShortBufferRejected ==
    \A s \in Scans :
        Done(s) /\ BufferShort(s) /\ HasOp(s, "Load") =>
            /\ ret[s].kind = "err"
            /\ ret[s].err \notin {NoErr, ErrCreate, ErrResize}
            /\ ret[s].result = ZeroResult
            /\ ~HasOp(s, "End") /\ ~HasOp(s, "Count")
            /\ ~HasOp(s, "Extract") /\ ~HasOp(s, "Decode")

\* C4: when Create and Resize succeed and the buffer holds w*h bytes, Reveal
\* returns a Result and a nil error, whatever the decodes gave.
C4_DecodeFailureNotSurfaced ==
    \A s \in Scans :
        Done(s) /\ CreateSucceeded(s) /\ ResizeSucceeded(s) /\ ~BufferShort(s) =>
            /\ ret[s].kind = "ok"
            /\ ret[s].err = NoErr
            /\ ret[s].result.Found = Len(detected[s])

\* C4 witness: a returned scan whose last candidate failed to decode.
C4_Witness ==
    \E s \in Scans :
        /\ Done(s) /\ ~BufferShort(s) /\ ret[s].kind = "ok"
        /\ detected[s] = <<1, 0>>
        /\ err[s] # NoErr

\* C5: the Code sequence is the subsequence of candidates 0..Found-1 that
\* decoded, in index order, one entry each.
C5_CodeIsSuccessSubsequence ==
    \A s \in Scans :
        Done(s) /\ ret[s].kind = "ok" =>
            /\ ret[s].result.Found = Len(detected[s])
            /\ ret[s].result.Code = Successes(detected[s], Len(detected[s]))

\* C5 witness: two candidates, the first corrupted and the second clean; the
\* single entry is the second candidate's.
C5_Witness ==
    \E s \in Scans :
        /\ Done(s) /\ ret[s].kind = "ok"
        /\ detected[s] = <<0, 1>>
        /\ ret[s].result.Found = 2 /\ ret[s].result.Usable = 1
        /\ Len(ret[s].result.Code) = 1
        /\ ret[s].result.Code[1].Corners[1] = Position(30, 0)

\* C6: if Create fails, Reveal returns its error at once with an empty
\* Result; no Destroy is deferred or run and no other engine operation is
\* called.
C6_CreateFailure ==
    \A s \in Scans :
        CreateFailed(s) =>
            /\ Done(s)
            /\ ret[s] = [kind |-> "err", result |-> ZeroResult, err |-> ErrCreate]
            /\ ~deferred[s]
            /\ OpNames(s) = <<"Create">>

\* C6 witness: a call whose Create failed is over.
C6_Witness ==
    \E s \in Scans : Done(s) /\ CreateFailed(s) /\ ret[s].err = ErrCreate

\* C7: if Resize fails after a successful Create, Reveal returns its error
\* with an empty Result, calls none of Load, End, Count, Extract and Decode,
\* and the context is released.
C7_ResizeFailure ==
    \A s \in Scans :
        ResizeFailed(s) =>
            /\ ret[s] = [kind |-> "err", result |-> ZeroResult, err |-> ErrResize]
            /\ OpNames(s) \in {<<"Create", "Resize">>, <<"Create", "Resize", "Destroy">>}
            /\ pc[s] \in {"destroy", "done"}
            /\ Done(s) => /\ OpNames(s) = <<"Create", "Resize", "Destroy">>
                          /\ destroyed[own[s]] = 1
                          /\ heap[own[s]].st = "freed"

\* C7 witness: a call whose Resize failed is over, its context released.
C7_Witness ==
    \E s \in Scans :
        Done(s) /\ ResizeFailed(s) /\ own[s] # NULL /\ destroyed[own[s]] = 1

\* C8: when Count returns 0, Reveal returns Found = 0, Usable = 0, no Code and
\* a nil error, never calls Extract or Decode, and releases the context.
C8_NoCandidates ==
    \A s \in Scans :
        (\E k \in 1..Len(ops[s]) : ops[s][k][1] = "Count" /\ ops[s][k][3] = 0) =>
            /\ ret[s] = [kind |-> "ok", result |-> ZeroResult, err |-> NoErr]
            /\ ~HasOp(s, "Extract") /\ ~HasOp(s, "Decode")
            /\ pc[s] \in {"destroy", "done"}
            /\ Done(s) => destroyed[own[s]] = 1 /\ heap[own[s]].st = "freed"

\* C8 witness: a scan that found nothing is over.
C8_Witness ==
    \E s \in Scans :
        /\ Done(s) /\ HasOp(s, "Count") /\ detected[s] = <<>>
        /\ ret[s].kind = "ok" /\ destroyed[own[s]] = 1

\* C9 (as claimed): after Load on a context resized to (w, h), from a buffer
\* of at least w*h bytes, every position of the scan buffer, the last one
\* included, holds the byte of the caller's buffer.
C9_LoadCopiesAll ==
    \A s \in Scans :
        pc[s] = "end" /\ ~BufferShort(s) /\ Live(Handle(s)) =>
            \A k \in 1..(w[s] * h[s]) : heap[Handle(s)].buf[k] = image[s][k]

\* What a call returns when it runs alone: a function of its own inputs and
\* of what the engine answered to it.
AloneRet(s) ==
    IF CreateFailed(s) THEN [kind |-> "err", result |-> ZeroResult, err |-> ErrCreate]
    ELSE IF ResizeFailed(s) THEN [kind |-> "err", result |-> ZeroResult, err |-> ErrResize]
    ELSE IF Len(image[s]) < w[s] * h[s] - 1 THEN Panicked
    ELSE [kind |-> "ok",
          result |-> [Found |-> Len(detected[s]),
                      Usable |-> Len(detected[s]) - Failures(detected[s]),
                      Code |-> Successes(detected[s], Len(detected[s]))],
          err |-> NoErr]

\* C10: two scans running concurrently on two Processing values: each call
\* returns what it would return alone and each context is released exactly
\* once, under every interleaving.
C10_ConcurrentScansIndependent ==
    /\ \A s \in Scans :
         Done(s) =>
            /\ ret[s] = AloneRet(s)
            /\ own[s] # NULL => destroyed[own[s]] = 1 /\ heap[own[s]].st = "freed"
    /\ \A hd \in Handles : destroyed[hd] <= 1

\* C10 witness: g1 created its context after g2 did and has returned a scan
\* of two candidates while g2 is still in the middle of its decode loop.
C10_Witness ==
    /\ Done("g1") /\ ret["g1"].kind = "ok" /\ ret["g1"].result.Found = 2
    /\ ret["g1"] = AloneRet("g1")
    /\ own["g1"] = 2 /\ own["g2"] = 1
    /\ destroyed[2] = 1
    /\ pc["g2"] = "append" /\ i["g2"] = 1 /\ qr["g2"] # qr["g1"]

\* C11: Version is a pure query: whenever it is called (before Create,
\* between two steps of a scan, after Destroy) and however often, it returns
\* the same string and leaves the handle, the current candidate, the decoded
\* data, the contexts and the state of every call as they were.
C11_VersionPure ==
    /\ [](versionCalls > 0 => versionOut = <<49, 46, 48>>)
    /\ [][versionCalls' # versionCalls =>
            /\ versionOut' = <<49, 46, 48>>
            /\ UNCHANGED <<qrStruct, code, data, heap, pc, result, ret, ops,
                           destroyed, allocated>>]_vars

\* C11 witness: Version has been called twice, the second time in the middle
\* of a scan, after a candidate was extracted and before it is decoded.
C11_Witness ==
    /\ versionCalls = 2
    /\ versionOut = <<49, 46, 48>>
    /\ pc["g1"] = "decode"
    /\ code["p1"] # ZeroCode

\* The operation that may come right after another within one call.
Follows(a, b) ==
    \/ a = "Create" /\ b = "Resize"
    \/ a = "Resize" /\ b \in {"Load", "Destroy"}
    \/ a = "Load" /\ b \in {"End", "Destroy"}
    \/ a = "End" /\ b = "Count"
    \/ a = "Count" /\ b \in {"Extract", "Destroy"}
    \/ a = "Extract" /\ b = "Decode"
    \/ a = "Decode" /\ b \in {"Extract", "Destroy"}

\* C12: within one Reveal call the engine operations come in the order
\* Create, Resize, Load, End, Count, (Extract, Decode) pairs, Destroy, none
\* skipped on the way: Load only after a successful Resize, End once after
\* Load and before Count and every Extract, Count after End, and Destroy the
\* last operation of the call.  An early exit (Resize failure, panic in
\* Load) goes from where it is straight to Destroy.
C12_OperationOrder ==
    \A s \in Scans :
        LET names == OpNames(s)
            n == Len(names)
        IN  /\ n >= 1 => names[1] = "Create"
            /\ \A k \in 1..(n - 1) : Follows(names[k], names[k + 1])
            /\ \A nm \in {"Create", "Resize", "Load", "End", "Count", "Destroy"} :
                  OpCount(s, nm) <= 1
            /\ HasOp(s, "Load") => ResizeSucceeded(s)
            /\ \A k \in 1..(n - 1) :
                  /\ names[k] = "Resize" /\ names[k + 1] = "Destroy" => ResizeFailed(s)
                  /\ names[k] = "Load" /\ names[k + 1] = "Destroy" => ret[s].kind = "panic"
            /\ Done(s) /\ CreateSucceeded(s) => names[n] = "Destroy"
            /\ Done(s) /\ ret[s].kind = "ok" => OpCount(s, "End") = 1

\* C12 witness: a finished scan of two candidates went through every
\* operation in order.
C12_Witness ==
    \E s \in Scans :
        /\ Done(s) /\ ret[s].kind = "ok"
        /\ OpNames(s) = <<"Create", "Resize", "Load", "End", "Count", "Extract",
                          "Decode", "Extract", "Decode", "Destroy">>

\* Positions in ops of the Extract calls of the current call.
ExtractAt(s) == {k \in 1..Len(ops[s]) : ops[s][k][1] = "Extract"}

\* C13: Reveal calls Extract only with 0 <= index < Count(), on every index
\* of that range once and in increasing order, and each Extract(i) is
\* followed by one Decode before the next Extract, which decodes the
\* candidate just extracted.
C13_ExtractInRange ==
    \A s \in Scans :
        LET found == Len(detected[s])
        IN  /\ \A k \in ExtractAt(s) :
                 /\ ops[s][k][3] >= 0 /\ ops[s][k][3] < found
                 /\ ops[s][k][3] = Cardinality({j \in ExtractAt(s) : j < k})
                 /\ HasOp(s, "Count") /\ ops[s][k - 1][1] \in {"Count", "Decode"}
                 /\ k < Len(ops[s]) => ops[s][k + 1] = Op("Decode", own[s], ops[s][k][3])
                 /\ k = Len(ops[s]) => pc[s] = "decode" /\ i[s] = ops[s][k][3]
            /\ OpCount(s, "Decode") <= OpCount(s, "Extract")
            /\ pc[s] = "decode" =>
                 code[Receiver(qr[s])] = CandidateOf(detected[s], i[s])
            /\ Done(s) /\ ret[s].kind = "ok" =>
                 /\ OpCount(s, "Extract") = found
                 /\ OpCount(s, "Decode") = found

\* C13 witness: a finished scan of two candidates extracted 0 and then 1,
\* each followed by its Decode.
C13_Witness ==
    \E s \in Scans :
        /\ Done(s) /\ ret[s].kind = "ok" /\ Len(detected[s]) = 2
        /\ Len(ops[s]) = 10
        /\ ops[s][6] = Op("Extract", own[s], 0) /\ ops[s][7] = Op("Decode", own[s], 0)
        /\ ops[s][8] = Op("Extract", own[s], 1) /\ ops[s][9] = Op("Decode", own[s], 1)

\* Number of the first n candidates of a scene whose decode fails.
FailuresAmong(scene, n) == Cardinality({k \in 1..n : ~Succeeds(scene, k - 1)})

\* C14: at every point of the decode loop, with the first i candidates
\* processed, Usable = Found - (failed decodes among them) and len(Code) =
\* (successful decodes among them); at return Found - Usable is the number
\* of candidates whose decode failed.
C14_LoopInvariant ==
    \A s \in Scans :
        /\ pc[s] \in {"extract", "decode", "append"} =>
             /\ i[s] < result[s].Found
             /\ result[s].Found = Len(detected[s])
             /\ result[s].Usable = result[s].Found - FailuresAmong(detected[s], i[s])
             /\ Len(result[s].Code) = i[s] - FailuresAmong(detected[s], i[s])
        /\ ret[s].kind = "ok" =>
             /\ i[s] = ret[s].result.Found
             /\ ret[s].result.Found - ret[s].result.Usable = Failures(detected[s])
             /\ Len(ret[s].result.Code) = Len(detected[s]) - Failures(detected[s])

\* C14 witness: in the loop, the first candidate failed and the second has
\* just been decoded and is about to be appended.
C14_Witness ==
    \E s \in Scans :
        /\ pc[s] = "append" /\ i[s] = 1 /\ detected[s] = <<0, 1>>
        /\ result[s].Found = 2 /\ result[s].Usable = 1 /\ result[s].Code = <<>>

\* C15: every Reveal call terminates: a call that has started ends, its
\* context (if it created one) released; the decode loop runs exactly Found
\* iterations; and a call that is under way can always take its next step.
C15_Terminates ==
    /\ \A s \in Scans : Running(s) ~> Done(s)
    /\ [](\A s \in Scans : Running(s) => ENABLED Step(s))
    /\ [](\A s \in Scans :
            Done(s) =>
               /\ ret[s].kind \in {"ok", "err", "panic"}
               /\ own[s] # NULL => heap[own[s]].st = "freed"
               /\ ret[s].kind = "ok" =>
                    /\ OpCount(s, "Extract") = ret[s].result.Found
                    /\ i[s] = ret[s].result.Found)

\* C15 witness: a call that went twice through the loop is over and its
\* context is released.
C15_Witness ==
    \E s \in Scans :
        /\ Done(s) /\ ret[s].kind = "ok" /\ ret[s].result.Found = 2
        /\ OpCount(s, "Extract") = 2 /\ heap[own[s]].st = "freed"

\* The index of the candidate behind the k-th entry of Code: the k-th
\* candidate of the scene that decodes.
RECURSIVE SuccessIndex(_, _, _)
SuccessIndex(scene, k, from) ==
    IF Succeeds(scene, from)
      THEN IF k = 1 THEN from ELSE SuccessIndex(scene, k - 1, from + 1)
      ELSE SuccessIndex(scene, k, from + 1)

\* The payload Decode produced: payload_len bytes of data.payload.
DecodedPayload(dt) == SubSeq(dt.payload, 1, dt.payload_len)

\* C16 (as claimed): the entry appended for candidate i carries the corners
\* and size of candidate i and the version, mask, ECC level, data type and
\* payload that Decode produced for candidate i.
C16_EntryCarriesDecoded ==
    \A s \in Scans :
        Done(s) /\ ret[s].kind = "ok" =>
            \A k \in 1..Len(ret[s].result.Code) :
                LET idx == SuccessIndex(detected[s], k, 0)
                    cd == CandidateOf(detected[s], idx)
                    dt == DecodeOf(detected[s], idx).data
                    e == ret[s].result.Code[k]
                IN  /\ e.Corners = [c \in 1..4 |-> Position(cd.corners[c].x, cd.corners[c].y)]
                    /\ e.Size = cd.size
                    /\ e.Version = dt.version
                    /\ e.Mask = dt.mask
                    /\ e.ECCLevel = dt.ecc_level
                    /\ e.DataType = dt.data_type
                    /\ e.Payload = DecodedPayload(dt)
                    /\ e.PayloadLength = dt.payload_len

\* C16, the part that holds: geometry and decoded fields are those of the
\* same candidate, and the payload is that candidate's payload up to its
\* first NUL byte.
C16_EntryFromSameIteration ==
    \A s \in Scans :
        Done(s) /\ ret[s].kind = "ok" =>
            /\ Len(ret[s].result.Code) = Len(detected[s]) - Failures(detected[s])
            /\ \A k \in 1..Len(ret[s].result.Code) :
                LET idx == SuccessIndex(detected[s], k, 0)
                    cd == CandidateOf(detected[s], idx)
                    dt == DecodeOf(detected[s], idx).data
                    e == ret[s].result.Code[k]
                IN  /\ e.Corners = [c \in 1..4 |-> Position(cd.corners[c].x, cd.corners[c].y)]
                    /\ e.Size = cd.size
                    /\ e.Version = dt.version
                    /\ e.Mask = dt.mask
                    /\ e.ECCLevel = dt.ecc_level
                    /\ e.DataType = dt.data_type
                    /\ e.Payload = GoString(DecodedPayload(dt))
                    /\ e.PayloadLength = Len(e.Payload)

\* C17: a Decoded Symbol is never mutated after it is appended.  Within one
\* call of Reveal every step (Extract and Decode of a later candidate, which
\* overwrite qr.code and qr.data, a later append, the return and the deferred
\* Destroy) leaves every entry already in Code as it was, and the Result
\* handed back holds exactly those entries.
C17_AppendedNeverMutated ==
    [][\A s \in Scans :
          calls' = calls =>
             /\ Len(result'[s].Code) >= Len(result[s].Code)
             /\ \A k \in 1..Len(result[s].Code) :
                   result'[s].Code[k] = result[s].Code[k]
             /\ ret[s].kind = "ok" => ret'[s] = ret[s]
             /\ ret'[s].kind = "ok" => ret'[s].result.Code = result'[s].Code]_vars

\* A call returned two entries, its context is released, and the shared
\* fields of the Processing no longer hold what the first entry was built
\* from.
C17_Witness ==
    \E s \in Scans :
        /\ Done(s) /\ ret[s].kind = "ok"
        /\ Len(ret[s].result.Code) = 2
        /\ heap[own[s]].st = "freed"
        /\ HasOp(s, "Destroy")
        /\ ret[s].result.Code[1] # QRcodeOf(code[qr[s]], data[qr[s]])
        /\ ret[s].result.Code[1] =
              QRcodeOf(CandidateOf(detected[s], 0), DecodeOf(detected[s], 0).data)

\* A context that is live and that no Processing refers to any more: nothing
\* can reach it to destroy it.
Leaked(hd) == Live(hd) /\ \A p \in Procs : qrStruct[p] # hd

\* C18: two Reveal calls interleaved on one Processing corrupt each other.
\* A context whose handle the other call's Create overwrote while it was live
\* is never destroyed afterwards, and a context is destroyed twice only when
\* both calls created one and the other call's context is lost in that way.
C18_SharedHandleCorrupts ==
    [][/\ \A hd \in Handles : Leaked(hd) => Leaked(hd)'
       /\ \A hd \in Handles :
             destroyed'[hd] >= 2 =>
                /\ \E s \in Scans : own'[s] = hd
                /\ \E lost \in Handles \ {hd} :
                      /\ Leaked(lost)'
                      /\ \E s \in Scans : own'[s] = lost]_vars

\* Both calls are over; the context the first Create made was never
\* destroyed and is out of reach, the one the second Create made was
\* destroyed by both calls, which both worked on it; and one call, whose
\* Decode after Extract(0) read the candidate the other call's Extract(1) had
\* put in qr.code, returned the second candidate twice.
C18_Witness ==
    /\ \A s \in Scans : Done(s) /\ qr[s] = "p1" /\ HasOp(s, "Destroy")
    /\ \E lost \in Handles, twice \in Handles :
          /\ lost # twice
          /\ Leaked(lost) /\ destroyed[lost] = 0
          /\ destroyed[twice] = 2 /\ qrStruct["p1"] = twice
          /\ {own[s] : s \in Scans} = {lost, twice}
    /\ \E s \in Scans :
          /\ ret[s].kind = "ok"
          /\ \A t \in Scans : detected[t] = <<1, 1>>
          /\ ret[s].result.Found = 2
          /\ ret[s].result.Code # Successes(detected[s], 2)
          /\ Len(ret[s].result.Code) = 2
          /\ \A t \in Scans : \A k \in 2..Len(ops[t]) : ops[t][k][2] = qrStruct["p1"]
          /\ ops[s][6] = Op("Extract", qrStruct["p1"], 0)
          /\ ret[s].result.Code[1] =
                QRcodeOf(CandidateOf(<<1, 1>>, 1), DecodeOf(<<1, 1>>, 1).data)
          /\ ret[s].result.Code[1] = ret[s].result.Code[2]

\* The positions of Reveal at which the call holds a context: after a
\* successful Create and before the deferred Destroy has run.
Holding(s) ==
    pc[s] \in {"resize", "load", "end", "count", "extract", "decode",
               "append", "destroy"}

\* C19: in sequential calls of Reveal on one Processing value, whatever mix
\* of Create failures, Resize failures and scans, every engine operation of a
\* call is applied to the context that call created, while it is live; the
\* handle a previous call left in the Processing value is never used or
\* destroyed again (no context is destroyed twice, no call faults); and no
\* context is live between calls.
C19_SequentialCallsOwnLiveContext ==
    /\ \A s \in Scans :
          /\ ret[s].kind # "fault"
          /\ Holding(s) => Handle(s) = own[s] /\ Live(own[s])
          /\ \A k \in 1..Len(ops[s]) :
                /\ ops[s][k][2] = own[s]
                /\ k > 1 => own[s] # NULL /\ ops[s][1] = Op("Create", own[s], 0)
                /\ own[s] # NULL /\ ops[s][k][1] # "Destroy" =>
                      Live(own[s]) \/ (Done(s) /\ HasOp(s, "Destroy"))
    /\ \A hd \in Handles :
          /\ destroyed[hd] <= 1
          /\ Live(hd) => \E s \in Scans : Running(s) /\ own[s] = hd
          /\ heap[hd].st = "freed" => destroyed[hd] = 1
    /\ (\A s \in Scans : ~Running(s)) => \A hd \in Handles : ~Live(hd)

\* The second of two sequential calls is over: it scanned with its own
\* context while the Processing value's field had held the first call's
\* released handle, and both contexts were destroyed once.
C19_Witness ==
    \E s \in Scans :
        /\ calls = 2 /\ Done(s) /\ ret[s].kind = "ok"
        /\ own[s] = 2 /\ qrStruct[qr[s]] = 2
        /\ heap[1].st = "freed" /\ heap[2].st = "freed"
        /\ destroyed[1] = 1 /\ destroyed[2] = 1
        /\ HasOp(s, "Extract")
        /\ \A k \in 1..Len(ops[s]) : ops[s][k][2] = 2

====
